---- MODULE Spec2Model ----
(***************************************************************************)
(* Device/Log store of the equipment check-out tracker: the useDevices     *)
(* hook (devices, logs, addDevice, removeDevice, scanDevice) together with *)
(* its localStorage snapshot.  Two copies of the hook exist in the         *)
(* repository (src/hooks/useDevices.ts and src/pages/Index.tsx); `variant` *)
(* selects which copy a behaviour runs.                                    *)
(*                                                                         *)
(* Strings are sequences of one-character strings.  Every handler runs to  *)
(* completion inside one browser event and React commits the new state     *)
(* before the next event is dispatched, so one action is one handler call  *)
(* on the committed state.  A handler is an operator from the current      *)
(* state and its arguments to its outcome: the collections it sets, the    *)
(* saveToStorage calls it makes, in order, and the result descriptor it    *)
(* returns.  The handlers are useCallback closures: they read the devices  *)
(* and logs captured by the render that created them (`closure`), which    *)
(* the commit that follows every event replaces.  The ScanInput component  *)
(* of the page keeps the device of its owner prompt in `pendingDevice`;    *)
(* its handlers are outcomes too, the store's outcome together with what   *)
(* the component sets and reports.                                         *)
(***************************************************************************)
EXTENDS Integers, Sequences, FiniteSets, TLC

\* ------------------------------------------------------------------ bounds
\* number of devices registered in a behaviour
MaxDevices == 2
\* number of completed scan transitions (check-outs and check-ins) in a behaviour
MaxTransitions == 2
\* number of localStorage.setItem calls that throw in a behaviour
MaxFailedWrites == 1
\* number of scan transitions past the retention cap in a long behaviour
MaxOverCap == 2

\* ------------------------------------------------------- program constants
HOOK_LOG_CAP == 100
PAGE_LOG_CAP == 500

VARIABLES variant, devices, logs, closure, localStorage, uuid, clock, created, failedWrites,
          pendingDevice

vars == <<variant, devices, logs, closure, localStorage, uuid, clock, created, failedWrites,
          pendingDevice>>

\* --------------------------------------------------------- JavaScript values
\* `undefined` (an omitted optional argument) and `null`; neither is a string
\* because "undefined" and "null" are not characters.
Undefined == <<"undefined">>
Null == <<"null">>

\* JavaScript truthiness of a string | null | undefined value
Falsy(x) == x = Undefined \/ x = Null \/ x = <<>>

IsSpace(c) == c = " "

UpperChar(c) == CASE c = "a" -> "A"
                  [] c = "b" -> "B"
                  [] OTHER -> c

\* String.prototype.toUpperCase
toUpperCase(s) == [i \in 1..Len(s) |-> UpperChar(s[i])]

RECURSIVE trimStart(_)
trimStart(s) == IF Len(s) > 0 /\ IsSpace(s[1]) THEN trimStart(Tail(s)) ELSE s

RECURSIVE trimEnd(_)
trimEnd(s) == IF Len(s) > 0 /\ IsSpace(s[Len(s)])
              THEN trimEnd(SubSeq(s, 1, Len(s) - 1))
              ELSE s

\* String.prototype.trim
trim(s) == trimEnd(trimStart(s))

\* ownerName?.trim()
optTrim(s) == IF s = Undefined THEN Undefined ELSE trim(s)

\* Array.prototype.slice(0, n)
slice(s, n) == SubSeq(s, 1, IF Len(s) < n THEN Len(s) ELSE n)

\* new Date() read off the wall clock (milliseconds); Date.prototype.toJSON;
\* new Date(isoString).  At least one millisecond passes between two handlers
\* that store a clock reading.
newDate(t) == <<"Date", t>>
toJSON(d) == <<"iso", d[2]>>
parseDate(s) == <<"Date", s[2]>>

\* ---------------------------------------------------------------- inputs
NameInputs == { <<" ">>, <<" ", "n">> }
BarcodeInputs == { <<" ">>, <<" ", "a">>, <<"A">>, <<"b">> }
OwnerInputs == { Undefined, <<>>, <<" ">>, <<"m">>, <<" ", "k", " ">> }
IdInputs == 1..(MaxDevices + MaxTransitions)

\* ------------------------------------------------------------- persistence
STORAGE_KEY == "devices"
LOGS_KEY == "logs"

DateField(key) == IF key = STORAGE_KEY THEN "createdAt" ELSE "timestamp"

\* JSON.stringify of an array of Device or LogEntry: Date fields become ISO
\* strings, everything else (null included) is kept
stringify(key, data) ==
  [k \in 1..Len(data) |->
     [f \in DOMAIN data[k] |->
        IF f = DateField(key) THEN toJSON(data[k][f]) ELSE data[k][f]]]

\* What localStorage holds under a key: nothing (getItem gives null), or a
\* text that is the empty string ("empty"), that JSON.parse rejects
\* ("malformed"), that parses to something without a map method, such as {}
\* or null ("notArray"), or that is the JSON of an array ("array", with the
\* array as value)
Absent == [present |-> FALSE, json |-> "none", value |-> <<>>]
Text(json, value) == [present |-> TRUE, json |-> json, value |-> value]

\* mutant: a write adds the data to what is stored instead of replacing it
saveToStorage_append(store, key, data, ok) ==
  IF ok
  THEN [store EXCEPT ![key] =
          Text("array", (IF @.json = "array" THEN @.value ELSE <<>>) \o stringify(key, data))]
  ELSE store

\* saveToStorage: localStorage.setItem inside try/catch; ok = FALSE is the
\* setItem that throws (quota), which is caught and only logged
saveToStorage(store, key, data, ok) ==
  IF ok
  THEN [store EXCEPT ![key] = Text("array", stringify(key, data))]
  ELSE store

\* parsed.map(x => ({ ...x, <date field>: new Date(x.<date field>) }))
revive(key, parsed) ==
  [k \in 1..Len(parsed) |->
     [f \in DOMAIN parsed[k] |->
        IF f = DateField(key) THEN parseDate(parsed[k][f]) ELSE parsed[k][f]]]

\* mutant: the dates are left as the ISO strings JSON.parse gives
loadFromStorage_noRevive(store, key, defaultValue) ==
  IF store[key].present /\ store[key].json = "array"
  THEN store[key].value
  ELSE defaultValue

\* loadFromStorage: the default when getItem gives null or the empty string
\* (`if (stored)` fails), when JSON.parse throws, and when parsed.map throws
\* (both caught); else the parsed array with its Date field reconstructed
loadFromStorage(store, key, defaultValue) ==
  LET stored == store[key] IN
  IF ~stored.present \/ stored.json = "empty" THEN defaultValue
  ELSE IF stored.json = "malformed" THEN defaultValue
  ELSE IF stored.json = "notArray" THEN defaultValue
  ELSE revive(key, stored.value)

\* how many of the setItem calls of one handler throw
Failures(oks) == Cardinality({k \in 1..Len(oks) : ~oks[k]})

\* a saveToStorage(key, data) call
Write(key, data) == [key |-> key, data |-> data]

\* mutant: a setItem that throws ends the handler, as an uncaught exception
\* would
RECURSIVE applyWrites_abort(_, _, _)
applyWrites_abort(store, writes, oks) ==
  IF writes = <<>> \/ ~Head(oks) THEN store
  ELSE applyWrites_abort(saveToStorage(store, Head(writes).key, Head(writes).data, TRUE),
                         Tail(writes), Tail(oks))

\* localStorage after the saveToStorage calls of one handler, in order
RECURSIVE applyWrites(_, _, _)
applyWrites(store, writes, oks) ==
  IF writes = <<>> THEN store
  ELSE applyWrites(saveToStorage(store, Head(writes).key, Head(writes).data, Head(oks)),
                   Tail(writes), Tail(oks))

EmptyStorage == [devices |-> Absent, logs |-> Absent]

\* the retention cap of the copy in use
LogCap(v) == IF v = "hook" THEN HOOK_LOG_CAP ELSE PAGE_LOG_CAP

\* ----------------------------------------------------------------- helpers
\* mutant: the trimming is forgotten
normalizedBarcode_noTrim(barcode) == toUpperCase(barcode)

\* mutant: the upper-casing is forgotten
normalizedBarcode_noUpper(barcode) == trim(barcode)

\* barcode.toUpperCase().trim()
normalizedBarcode(barcode) == trim(toUpperCase(barcode))

\* mutant: only the barcode is validated
missingInput_barcodeOnly(name, nb) == Falsy(nb)

\* !name.trim() || !normalizedBarcode
missingInput(name, nb) == Falsy(trim(name)) \/ Falsy(nb)

\* mutant: the duplicate check reads the persisted devices
exists_persisted(devs, nb) ==
  \E k \in 1..Len(localStorage[STORAGE_KEY].value) :
    localStorage[STORAGE_KEY].value[k].barcode = nb

\* mutant: the duplicate check compares the wrong field
exists_byName(devs, nb) == \E k \in 1..Len(devs) : devs[k].name = nb

\* devices.some(d => d.barcode === normalizedBarcode)
exists(devs, nb) == \E k \in 1..Len(devs) : devs[k].barcode = nb

\* mutant: the name is stored as typed
newDevice_rawName(id, name, nb, now) ==
  [id |-> id, name |-> name, barcode |-> nb, status |-> "disponivel",
   currentOwner |-> Null, createdAt |-> now]

\* the Device literal built by addDevice
newDevice(id, name, nb, now) ==
  [id |-> id, name |-> trim(name), barcode |-> nb, status |-> "disponivel",
   currentOwner |-> Null, createdAt |-> now]

\* mutant: an unknown barcode falls back to the first device
findByBarcode_orFirst(devs, nb) ==
  IF \E k \in 1..Len(devs) : devs[k].barcode = nb
  THEN CHOOSE k \in 1..Len(devs) :
         /\ devs[k].barcode = nb
         /\ \A j \in 1..(k - 1) : devs[j].barcode # nb
  ELSE IF Len(devs) > 0 THEN 1 ELSE 0

\* devices.find(d => d.barcode === normalizedBarcode): index of the first
\* match, 0 for `undefined`
findByBarcode(devs, nb) ==
  IF \E k \in 1..Len(devs) : devs[k].barcode = nb
  THEN CHOOSE k \in 1..Len(devs) :
         /\ devs[k].barcode = nb
         /\ \A j \in 1..(k - 1) : devs[j].barcode # nb
  ELSE 0

\* mutant: an unknown id falls back to the first device
findById_orFirst(devs, id) ==
  IF \E k \in 1..Len(devs) : devs[k].id = id
  THEN CHOOSE k \in 1..Len(devs) :
         /\ devs[k].id = id
         /\ \A j \in 1..(k - 1) : devs[j].id # id
  ELSE IF Len(devs) > 0 THEN 1 ELSE 0

\* devices.find(d => d.id === id)
findById(devs, id) ==
  IF \E k \in 1..Len(devs) : devs[k].id = id
  THEN CHOOSE k \in 1..Len(devs) :
         /\ devs[k].id = id
         /\ \A j \in 1..(k - 1) : devs[j].id # id
  ELSE 0

\* mutant: the guard tests the wrong status
isLent_inverted(device) == device.status = "disponivel"

\* device.status === 'emprestado' (the guard of removeDevice)
isLent(device) == device.status = "emprestado"

\* mutant: the filter keeps the device instead of dropping it
RECURSIVE filterOutId_keep(_, _)
filterOutId_keep(devs, id) ==
  IF devs = <<>> THEN <<>>
  ELSE IF Head(devs).id = id
       THEN <<Head(devs)>> \o filterOutId_keep(Tail(devs), id)
       ELSE filterOutId_keep(Tail(devs), id)

\* devices.filter(d => d.id !== id)
RECURSIVE filterOutId(_, _)
filterOutId(devs, id) ==
  IF devs = <<>> THEN <<>>
  ELSE IF Head(devs).id # id
       THEN <<Head(devs)>> \o filterOutId(Tail(devs), id)
       ELSE filterOutId(Tail(devs), id)

\* mutant: the owner name is tested without trimming
needsOwner_noTrim(ownerName) == Falsy(ownerName)

\* !ownerName?.trim()
needsOwner(ownerName) == Falsy(optTrim(ownerName))

\* mutant: the owner is stored as typed
lend_rawOwner(d, ownerName) ==
  [d EXCEPT !.status = "emprestado", !.currentOwner = ownerName]

\* mutant: the device is lent to the empty name
lend_emptyOwner(d, ownerName) ==
  [d EXCEPT !.status = "emprestado", !.currentOwner = <<>>]

\* mutant: the owner is not stored
lend_statusOnly(d, ownerName) == [d EXCEPT !.status = "emprestado"]

\* { ...d, status: 'emprestado', currentOwner: ownerName.trim() }
lend(d, ownerName) ==
  [d EXCEPT !.status = "emprestado", !.currentOwner = trim(ownerName)]

\* mutant: the return also restamps the device
giveBack_touch(d) ==
  [d EXCEPT !.status = "disponivel", !.currentOwner = Null, !.createdAt = newDate(clock)]

\* { ...d, status: 'disponivel', currentOwner: null }
giveBack(d) == [d EXCEPT !.status = "disponivel", !.currentOwner = Null]

\* mutant: the device to lend is matched by its name
mapLend_byName(devs, id, ownerName) ==
  LET name == devs[findById(devs, id)].name IN
  [k \in 1..Len(devs) |-> IF devs[k].name = name THEN lend(devs[k], ownerName) ELSE devs[k]]

\* devices.map(d => d.id === device.id ? change(d) : d), checkout branch
mapLend(devs, id, ownerName) ==
  [k \in 1..Len(devs) |-> IF devs[k].id = id THEN lend(devs[k], ownerName) ELSE devs[k]]

\* mutant: the return leaves the devices as they are
mapGiveBack_none(devs, id) == devs

\* devices.map(d => d.id === device.id ? change(d) : d), return branch
mapGiveBack(devs, id) ==
  [k \in 1..Len(devs) |-> IF devs[k].id = id THEN giveBack(devs[k]) ELSE devs[k]]

\* mutant: the placeholder is always used
previousOwner_placeholder(device) == <<"Desconhecido">>

\* device.currentOwner || 'Desconhecido'
previousOwner(device) ==
  IF Falsy(device.currentOwner) THEN <<"Desconhecido">> ELSE device.currentOwner

\* the LogEntry literal; the copy in pages/Index.tsx also snapshots the
\* device id and barcode
newLog(v, id, device, action, owner, now) ==
  IF v = "hook"
  THEN [id |-> id, deviceName |-> device.name, action |-> action,
        owner |-> owner, timestamp |-> now]
  ELSE [id |-> id, deviceId |-> device.id, deviceName |-> device.name,
        deviceBarcode |-> device.barcode, action |-> action,
        owner |-> owner, timestamp |-> now]

\* mutant: the new entry is put in twice
updatedLogs_twice(v, entry, oldLogs) == slice(<<entry, entry>> \o oldLogs, LogCap(v))

\* mutant: at the cap the new entry is the one that is dropped
updatedLogs_keepOldest(v, entry, oldLogs) ==
  IF Len(oldLogs) >= LogCap(v) THEN oldLogs ELSE <<entry>> \o oldLogs

\* mutant: the entry that was the newest is rewritten when a new one is added
updatedLogs_closePrevious(v, entry, oldLogs) ==
  slice(<<entry>> \o [k \in 1..Len(oldLogs) |->
                        IF k = 1 THEN [oldLogs[k] EXCEPT !.action = "FECHADO"] ELSE oldLogs[k]],
        LogCap(v))

\* mutant: the new entry is put at the end
updatedLogs_append(v, entry, oldLogs) == slice(oldLogs \o <<entry>>, LogCap(v))

\* [newLog, ...logs].slice(0, cap)
updatedLogs(v, entry, oldLogs) == slice(<<entry>> \o oldLogs, LogCap(v))

\* result descriptors (NeedsOwnerResult_noMessage is a mutant: the descriptor
\* of the owner request without its message)
Msg(kind, args) == [kind |-> kind, args |-> args]
Result(success, message) == [success |-> success, message |-> message]
NeedsOwnerResult_noMessage(device) ==
  [success |-> FALSE, needsOwner |-> TRUE, device |-> device]

NeedsOwnerResult(device) ==
  [success |-> FALSE, message |-> Msg("empty", <<>>), needsOwner |-> TRUE,
   device |-> device]

\* ---------------------------------------------------------------- handlers
\* `devices` and `logs` are the React state; `closure` is what the callbacks
\* of the current render read as devices and logs.
\* mutant: the callbacks are made once, with an empty dependency list
render_once(old, devs, lgs) == old

\* the render after a handler: useCallback makes a callback anew, over the
\* state of that render, when one of its dependencies has changed: [devices]
\* for addDevice, removeDevice and getStats, [devices, logs] for scanDevice
render(old, devs, lgs) ==
  [devices |-> IF devs # old.devices THEN devs ELSE old.devices,
   logs |-> IF devs # old.devices \/ lgs # old.logs THEN lgs ELSE old.logs]

\* mutant: the early return saves the devices it has read
Return_saving(result) ==
  [devices |-> devices, logs |-> logs, writes |-> <<Write(STORAGE_KEY, closure.devices)>>,
   uuid |-> uuid, clock |-> clock, result |-> result]

\* a handler that returns before any setState or saveToStorage call
Return(result) ==
  [devices |-> devices, logs |-> logs, writes |-> <<>>,
   uuid |-> uuid, clock |-> clock, result |-> result]

addDevice(name, barcode) ==
  LET nb == normalizedBarcode(barcode) IN
  IF missingInput(name, nb)
  THEN Return(Result(FALSE, Msg("obrigatorios", <<>>)))
  ELSE IF exists(closure.devices, nb)
  THEN Return(Result(FALSE, Msg("ja existe", <<nb>>)))
  ELSE LET updated == closure.devices \o <<newDevice(uuid + 1, name, nb, newDate(clock))>> IN
       [devices |-> updated,
        logs |-> logs,
        writes |-> <<Write(STORAGE_KEY, updated)>>,
        uuid |-> uuid + 1,
        clock |-> clock + 1,
        result |-> Result(TRUE, Msg("cadastrado", <<name>>))]

\* mutant: removing a device also empties the log
removeDevice_clearLogs(id) ==
  LET i == findById(closure.devices, id) IN
  IF i = 0
  THEN Return(Result(FALSE, Msg("nao encontrado", <<>>)))
  ELSE IF isLent(closure.devices[i])
  THEN Return(Result(FALSE, Msg("emprestado", <<>>)))
  ELSE LET updated == filterOutId(closure.devices, id) IN
       [devices |-> updated,
        logs |-> <<>>,
        writes |-> <<Write(STORAGE_KEY, updated)>>,
        uuid |-> uuid,
        clock |-> clock,
        result |-> Result(TRUE, Msg("removido", <<closure.devices[i].name>>))]

removeDevice(id) ==
  LET i == findById(closure.devices, id) IN
  IF i = 0
  THEN Return(Result(FALSE, Msg("nao encontrado", <<>>)))
  ELSE IF isLent(closure.devices[i])
  THEN Return(Result(FALSE, Msg("emprestado", <<>>)))
  ELSE LET updated == filterOutId(closure.devices, id) IN
       [devices |-> updated,
        logs |-> logs,
        writes |-> <<Write(STORAGE_KEY, updated)>>,
        uuid |-> uuid,
        clock |-> clock,
        result |-> Result(TRUE, Msg("removido", <<closure.devices[i].name>>))]

\* mutant: the new logs are set but not saved
transition_logsUnsaved(updatedDevices, newLogs, result) ==
  [devices |-> updatedDevices,
   logs |-> newLogs,
   writes |-> <<Write(STORAGE_KEY, updatedDevices)>>,
   uuid |-> uuid + 1,
   clock |-> clock + 1,
   result |-> result]

\* mutant: the logs are saved before the devices
transition_logsFirst(updatedDevices, newLogs, result) ==
  [devices |-> updatedDevices,
   logs |-> newLogs,
   writes |-> <<Write(LOGS_KEY, newLogs), Write(STORAGE_KEY, updatedDevices)>>,
   uuid |-> uuid + 1,
   clock |-> clock + 1,
   result |-> result]

\* the two branches of scanDevice that change state: both collections are
\* replaced and written, devices first
transition(updatedDevices, newLogs, result) ==
  [devices |-> updatedDevices,
   logs |-> newLogs,
   writes |-> <<Write(STORAGE_KEY, updatedDevices), Write(LOGS_KEY, newLogs)>>,
   uuid |-> uuid + 1,
   clock |-> clock + 1,
   result |-> result]

\* mutant: a return with an owner name typed in logs that name
scanDevice_ownerOnReturn(barcode, ownerName) ==
  LET nb == normalizedBarcode(barcode)
      i == findByBarcode(closure.devices, nb)
  IN
  IF i = 0
  THEN Return(Result(FALSE, Msg("nao encontrado", <<nb>>)))
  ELSE
  LET device == closure.devices[i]
      now == newDate(clock)
      who == IF needsOwner(ownerName) THEN previousOwner(device) ELSE trim(ownerName)
  IN
  IF device.status = "disponivel"
  THEN IF needsOwner(ownerName)
       THEN Return(NeedsOwnerResult(device))
       ELSE transition(
              mapLend(closure.devices, device.id, ownerName),
              updatedLogs(variant,
                newLog(variant, uuid + 1, device, "SAIDA", trim(ownerName), now),
                closure.logs),
              Result(TRUE, Msg("SAIDA", <<device.name, trim(ownerName)>>)))
  ELSE transition(
         mapGiveBack(closure.devices, device.id),
         updatedLogs(variant,
           newLog(variant, uuid + 1, device, "DEVOLUCAO", who, now),
           closure.logs),
         Result(TRUE, Msg("DEVOLVIDO", <<device.name, who>>)))

scanDevice(barcode, ownerName) ==
  LET nb == normalizedBarcode(barcode)
      i == findByBarcode(closure.devices, nb)
  IN
  IF i = 0
  THEN Return(Result(FALSE, Msg("nao encontrado", <<nb>>)))
  ELSE
  LET device == closure.devices[i]
      now == newDate(clock)
  IN
  IF device.status = "disponivel"
  THEN IF needsOwner(ownerName)
       THEN Return(NeedsOwnerResult(device))
       ELSE transition(
              mapLend(closure.devices, device.id, ownerName),
              updatedLogs(variant,
                newLog(variant, uuid + 1, device, "SAIDA", trim(ownerName), now),
                closure.logs),
              Result(TRUE, Msg("SAIDA", <<device.name, trim(ownerName)>>)))
  ELSE transition(
         mapGiveBack(closure.devices, device.id),
         updatedLogs(variant,
           newLog(variant, uuid + 1, device, "DEVOLUCAO", previousOwner(device), now),
           closure.logs),
         Result(TRUE, Msg("DEVOLVIDO", <<device.name, previousOwner(device)>>)))

\* mutant: the lent devices are not subtracted
getStats_noSubtract ==
  LET total == Len(closure.devices)
      emprestados == Cardinality({k \in 1..Len(closure.devices) :
                                    closure.devices[k].status = "emprestado"})
  IN [total |-> total, emprestados |-> emprestados, disponiveis |-> total]

\* getStats: counts over the devices in memory
getStats ==
  LET total == Len(closure.devices)
      emprestados == Cardinality({k \in 1..Len(closure.devices) :
                                    closure.devices[k].status = "emprestado"})
  IN [total |-> total, emprestados |-> emprestados, disponiveis |-> total - emprestados]

\* --------------------------------------------------------------- ScanInput
\* useState<Device | null>: no device, or the one device of the owner prompt
NoDevice == <<>>
Pending(device) == <<device>>

\* what the component passes to onNotification; nothing when it does not call
NoNotification == [shown |-> FALSE, message |-> Msg("empty", <<>>), type |-> "none"]
Notification(message, type) == [shown |-> TRUE, message |-> message, type |-> type]

\* result.needsOwner && result.device
asksOwner(result) ==
  /\ "needsOwner" \in DOMAIN result /\ result.needsOwner
  /\ "device" \in DOMAIN result

\* a handler of the component that returns before it calls onScan
NoScan ==
  [devices |-> devices, logs |-> logs, writes |-> <<>>, uuid |-> uuid, clock |-> clock,
   called |-> FALSE, pendingDevice |-> pendingDevice, notification |-> NoNotification]

\* the store's outcome together with what the component sets and reports
Scanned(out, pending, notification) ==
  [devices |-> out.devices, logs |-> out.logs, writes |-> out.writes,
   uuid |-> out.uuid, clock |-> out.clock,
   called |-> TRUE, pendingDevice |-> pending, notification |-> notification]

\* handleScan: Enter or the button of the barcode box; the box holds what
\* was typed, upper-cased by its onChange
handleScan(typed) ==
  LET barcode == toUpperCase(typed) IN
  IF Falsy(trim(barcode)) THEN NoScan
  ELSE LET out == scanDevice(barcode, Undefined)
           result == out.result
       IN IF asksOwner(result)
          THEN Scanned(out, Pending(result.device), NoNotification)
          ELSE IF result.success
          THEN Scanned(out, pendingDevice,
                       Notification(result.message,
                                    IF result.message.kind = "DEVOLVIDO"
                                    THEN "info" ELSE "success"))
          ELSE IF result.message.kind # "empty"
          THEN Scanned(out, pendingDevice, Notification(result.message, "error"))
          ELSE Scanned(out, pendingDevice, NoNotification)

\* handleCheckout: Enter or the send button of the owner prompt
handleCheckout(ownerName) ==
  IF pendingDevice = NoDevice \/ Falsy(trim(ownerName)) THEN NoScan
  ELSE LET out == scanDevice(pendingDevice[1].barcode, ownerName) IN
       Scanned(out, NoDevice,
               Notification(out.result.message,
                            IF out.result.success THEN "success" ELSE "error"))

\* cancelCheckout: the cancel button of the owner prompt
cancelCheckout == [NoScan EXCEPT !.pendingDevice = NoDevice]

\* mutant: the barcode box is rendered next to the owner prompt
rendersScanBox_always(pending) == TRUE

\* the component renders the owner prompt while a device is pending and the
\* barcode box otherwise
rendersPrompt(pending) == pending # NoDevice
rendersScanBox(pending) == ~rendersPrompt(pending)

\* ------------------------------------------------------------------- state
\* useDevices(): both collections are loaded from an empty localStorage
Init ==
  /\ variant \in {"hook", "page"}
  /\ localStorage = EmptyStorage
  /\ devices = loadFromStorage(EmptyStorage, STORAGE_KEY, <<>>)
  /\ logs = loadFromStorage(EmptyStorage, LOGS_KEY, <<>>)
  /\ closure = [devices |-> devices, logs |-> logs]
  /\ uuid = 0
  /\ clock = 0
  /\ created = 0
  /\ failedWrites = 0
  /\ pendingDevice = NoDevice

\* which of n setItem calls succeed; no more than MaxFailedWrites throw
Throws(n) == {oks \in [1..n -> BOOLEAN] : failedWrites + Failures(oks) <= MaxFailedWrites}

\* the state a handler leaves behind, rendered before the next event
Commit(out) ==
  /\ \E oks \in Throws(Len(out.writes)) :
       /\ localStorage' = applyWrites(localStorage, out.writes, oks)
       /\ failedWrites' = failedWrites + Failures(oks)
  /\ devices' = out.devices
  /\ logs' = out.logs
  /\ closure' = render(closure, out.devices, out.logs)
  /\ uuid' = out.uuid
  /\ clock' = out.clock
  /\ UNCHANGED variant

Register ==
  \E name \in NameInputs, barcode \in BarcodeInputs :
    LET out == addDevice(name, barcode) IN
    /\ out.result.success => created < MaxDevices
    /\ Commit(out)
    /\ created' = IF out.result.success THEN created + 1 ELSE created
    /\ UNCHANGED pendingDevice

Unregister ==
  \E id \in IdInputs :
    /\ Commit(removeDevice(id))
    /\ UNCHANGED <<created, pendingDevice>>

Scan ==
  \E barcode \in BarcodeInputs, ownerName \in OwnerInputs :
    LET out == scanDevice(barcode, ownerName) IN
    /\ out.result.success => uuid - created < MaxTransitions
    /\ Commit(out)
    /\ UNCHANGED <<created, pendingDevice>>

\* getStats is called at every render; it sets and saves nothing
Stats ==
  /\ Commit(Return(getStats))
  /\ UNCHANGED <<created, pendingDevice>>

Next == Register \/ Unregister \/ Scan \/ Stats

Spec == Init /\ [][Next]_vars

\* ------------------------------------------------ the page with ScanInput
\* The page: scans come from the ScanInput component only, registers from
\* the form and unregisters from the device cards, in any order.
\* texts typed into the owner prompt
TypedOwners == OwnerInputs \ {Undefined}

ScanEnter ==
  \E typed \in BarcodeInputs :
    LET out == handleScan(typed) IN
    /\ rendersScanBox(pendingDevice)
    /\ out.uuid # uuid => uuid - created < MaxTransitions
    /\ Commit(out)
    /\ pendingDevice' = out.pendingDevice
    /\ UNCHANGED created

CheckoutEnter ==
  \E typed \in TypedOwners :
    LET out == handleCheckout(typed) IN
    /\ rendersPrompt(pendingDevice)
    /\ out.uuid # uuid => uuid - created < MaxTransitions
    /\ Commit(out)
    /\ pendingDevice' = out.pendingDevice
    /\ UNCHANGED created

Cancel ==
  /\ rendersPrompt(pendingDevice)
  /\ Commit(cancelCheckout)
  /\ pendingDevice' = cancelCheckout.pendingDevice
  /\ UNCHANGED created

NextPage == Register \/ Unregister \/ ScanEnter \/ CheckoutEnter \/ Cancel

SpecPage == Init /\ [][NextPage]_vars

\* ------------------------------------------------- one device, many scans
\* The same store driven long enough to fill the log: one device is
\* registered and then lent to and returned by the same holder.
RetentionHolder == <<"m">>

RegisterFirst ==
  \E name \in NameInputs, barcode \in BarcodeInputs :
    LET out == addDevice(name, barcode) IN
    /\ out.result.success
    /\ created = 0
    /\ Commit(out)
    /\ created' = created + 1
    /\ UNCHANGED pendingDevice

ScanSameHolder ==
  \E barcode \in BarcodeInputs :
    LET out == scanDevice(barcode, RetentionHolder) IN
    /\ out.result.success
    /\ uuid - created < LogCap(variant) + MaxOverCap
    /\ Commit(out)
    /\ UNCHANGED <<created, pendingDevice>>

NextRetention == RegisterFirst \/ ScanSameHolder

SpecRetention == Init /\ [][NextRetention]_vars

\* ------------------------------------------- a session over a used browser
\* The hook is mounted over what an earlier session, or anything else, left
\* in localStorage, and the page can be reloaded at any time.
\* the device and the log entry of an earlier session: one device, lent
PreviousDevice == lend(newDevice(1, <<"n">>, <<"A">>, newDate(0)), <<"m">>)
PreviousLog(v) ==
  newLog(v, 2, newDevice(1, <<"n">>, <<"A">>, newDate(0)), "SAIDA", <<"m">>, newDate(1))

PreviousData(v, key) ==
  IF key = STORAGE_KEY THEN <<PreviousDevice>> ELSE <<PreviousLog(v)>>

\* what a key can hold when the hook is mounted
StoredInputs(v, key) ==
  { Absent, Text("empty", <<>>), Text("malformed", <<>>), Text("notArray", <<>>),
    Text("array", stringify(key, PreviousData(v, key))) }

\* mutant: one unusable entry makes both collections start empty
useDevices_allOrNothing(store) ==
  IF \E key \in {STORAGE_KEY, LOGS_KEY} : ~store[key].present \/ store[key].json # "array"
  THEN [devices |-> <<>>, logs |-> <<>>]
  ELSE [devices |-> loadFromStorage(store, STORAGE_KEY, <<>>),
        logs |-> loadFromStorage(store, LOGS_KEY, <<>>)]

\* the two useState initializers of useDevices
useDevices(store) ==
  [devices |-> loadFromStorage(store, STORAGE_KEY, <<>>),
   logs |-> loadFromStorage(store, LOGS_KEY, <<>>)]

\* the ids and clock readings of the earlier session are used up
InitStored ==
  /\ variant \in {"hook", "page"}
  /\ localStorage \in [devices : StoredInputs(variant, STORAGE_KEY),
                       logs : StoredInputs(variant, LOGS_KEY)]
  /\ devices = useDevices(localStorage).devices
  /\ logs = useDevices(localStorage).logs
  /\ closure = [devices |-> devices, logs |-> logs]
  /\ uuid = 2
  /\ clock = 2
  /\ created = 1
  /\ failedWrites = 0
  /\ pendingDevice = NoDevice

\* the page is reloaded: the hook is mounted again over the same localStorage
Reload ==
  /\ devices' = useDevices(localStorage).devices
  /\ logs' = useDevices(localStorage).logs
  /\ closure' = useDevices(localStorage)
  /\ pendingDevice' = NoDevice
  /\ UNCHANGED <<variant, localStorage, uuid, clock, created, failedWrites>>

NextReload == Register \/ Unregister \/ Scan \/ Stats \/ Reload

SpecReload == InitStored /\ [][NextReload]_vars

\* ------------------------------------------------------------------ claims
\* the sequence devs without its k-th element
Without(devs, k) == SubSeq(devs, 1, k - 1) \o SubSeq(devs, k + 1, Len(devs))

\* the ids of the entries of a log
LogIds(ls) == {ls[k].id : k \in 1..Len(ls)}

\* the positions of the devices whose barcode is the normalized b
Matching(b) == {k \in 1..Len(devices) : devices[k].barcode = trim(toUpperCase(b))}

\* the device with this id is in devs
StillIn(devs, id) == \E j \in 1..Len(devs) : devs[j].id = id

\* a holder argument that is absent, empty or blank
Blank(h) == h = Undefined \/ trim(h) = <<>>

\* C1: in every reachable state a registered device is lent exactly when its
\* currentOwner is non-null
C1_LentIffOwner ==
  \A k \in 1..Len(devices) :
    (devices[k].status = "emprestado") <=> (devices[k].currentOwner # Null)

\* one device is lent while another, lent and returned before, is available
C1_Witness ==
  /\ \E j, k \in 1..Len(devices) :
       devices[j].status = "emprestado" /\ devices[k].status = "disponivel"
  /\ Len(logs) >= 1

\* C2: in every reachable state no two distinct devices have the same
\* upper-cased, trimmed barcode
C2_UniqueBarcodes ==
  \A j, k \in 1..Len(devices) :
    j # k => trim(toUpperCase(devices[j].barcode)) # trim(toUpperCase(devices[k].barcode))

\* two devices are registered and a register of " a" is refused
C2_Witness ==
  /\ Len(devices) = 2
  /\ \E e \in 1..Len(logs) : logs[e].action = "DEVOLUCAO"
  /\ ~addDevice(<<" ", "n">>, <<" ", "a">>).result.success

\* C3: a scan of an available device with a holder that is non-empty after
\* trim succeeds, lends the device to the trimmed holder and prepends exactly
\* one new checkout entry to logs (then cut to the cap)
C3_Checkout ==
  \A b \in BarcodeInputs, h \in OwnerInputs :
    \A k \in Matching(b) :
      (devices[k].status = "disponivel" /\ ~Blank(h))
      => LET out == scanDevice(b, h) IN
         /\ out.result.success
         /\ Len(out.devices) = Len(devices)
         /\ out.devices[k].status = "emprestado"
         /\ out.devices[k].currentOwner = trim(h)
         /\ Len(out.logs) >= 1
         /\ out.logs[1].action = "SAIDA"
         /\ out.logs[1].owner = trim(h)
         /\ out.logs[1].id \notin LogIds(logs)
         /\ out.logs = slice(<<out.logs[1]>> \o logs, LogCap(variant))

\* a device is available, logs is not empty, and scanning it for " k " lends it
C3_Witness ==
  /\ Len(logs) >= 1
  /\ \E b \in BarcodeInputs : \E k \in Matching(b) :
       /\ devices[k].status = "disponivel"
       /\ scanDevice(b, <<" ", "k", " ">>).devices[k].currentOwner = <<"k">>

\* C4: a scan of a lent device succeeds, makes it available with a null
\* currentOwner and prepends exactly one new checkin entry whose owner is the
\* currentOwner the device had before the call
C4_Checkin ==
  \A b \in BarcodeInputs, h \in OwnerInputs :
    \A k \in Matching(b) :
      devices[k].status = "emprestado"
      => LET out == scanDevice(b, h) IN
         /\ out.result.success
         /\ Len(out.devices) = Len(devices)
         /\ out.devices[k].status = "disponivel"
         /\ out.devices[k].currentOwner = Null
         /\ Len(out.logs) >= 1
         /\ out.logs[1].action = "DEVOLUCAO"
         /\ out.logs[1].owner = devices[k].currentOwner
         /\ out.logs[1].id \notin LogIds(logs)
         /\ out.logs = slice(<<out.logs[1]>> \o logs, LogCap(variant))

\* the newest entry is a checkin of a device that is available again, and the
\* entry before it is the checkout to the same holder
C4_Witness ==
  /\ Len(logs) >= 2
  /\ logs[1].action = "DEVOLUCAO"
  /\ logs[2].action = "SAIDA"
  /\ logs[1].owner = logs[2].owner
  /\ \E k \in 1..Len(devices) :
       devices[k].name = logs[1].deviceName /\ devices[k].status = "disponivel"

\* C5: a scan of an available device with an absent, empty or blank holder
\* returns needsOwner = true with the matched device and an empty message, and
\* changes neither devices nor logs nor what is persisted
C5_NeedsOwner ==
  \A b \in BarcodeInputs, h \in OwnerInputs :
    \A k \in Matching(b) :
      (devices[k].status = "disponivel" /\ Blank(h))
      => LET out == scanDevice(b, h) IN
         /\ "needsOwner" \in DOMAIN out.result
         /\ out.result.needsOwner = TRUE
         /\ out.result.device = devices[k]
         /\ out.result.message = Msg("empty", <<>>)
         /\ out.devices = devices
         /\ out.logs = logs
         /\ out.writes = <<>>

\* an available device, after earlier transitions, scanned with a blank holder
C5_Witness ==
  /\ Len(logs) >= 1
  /\ localStorage[LOGS_KEY].present
  /\ \E b \in BarcodeInputs : \E k \in Matching(b) :
       /\ devices[k].status = "disponivel"
       /\ "needsOwner" \in DOMAIN scanDevice(b, <<" ">>).result

\* C6 as stated: a register whose normalized barcode is already in devices
\* fails with the duplicate-barcode message and leaves devices unchanged
C6_Original ==
  \A n \in NameInputs, b \in BarcodeInputs :
    Matching(b) # {}
    => LET out == addDevice(n, b) IN
       /\ out.result = Result(FALSE, Msg("ja existe", <<trim(toUpperCase(b))>>))
       /\ out.devices = devices

\* C6 amended: a register whose normalized barcode is already in devices fails
\* and leaves devices unchanged; its message is the duplicate-barcode message
\* when the name is non-empty after trim and the validation message otherwise
C6_Duplicate ==
  \A n \in NameInputs, b \in BarcodeInputs :
    Matching(b) # {}
    => LET out == addDevice(n, b) IN
       /\ out.result =
            IF trim(n) # <<>>
            THEN Result(FALSE, Msg("ja existe", <<trim(toUpperCase(b))>>))
            ELSE Result(FALSE, Msg("obrigatorios", <<>>))
       /\ out.devices = devices

\* a device stored as "A" and a register of " a" under a valid name
C6_Witness ==
  /\ Matching(<<" ", "a">>) # {}
  /\ addDevice(<<" ", "n">>, <<" ", "a">>).result.message.kind = "ja existe"

\* C7: a register whose name is empty after trim or whose barcode is empty
\* after normalization fails with the validation message and leaves devices
\* unchanged, also when the barcode is a duplicate
C7_Validation ==
  \A n \in NameInputs, b \in BarcodeInputs :
    (trim(n) = <<>> \/ trim(toUpperCase(b)) = <<>>)
    => LET out == addDevice(n, b) IN
       /\ out.result = Result(FALSE, Msg("obrigatorios", <<>>))
       /\ out.devices = devices

\* a blank name together with a barcode that is already registered
C7_Witness ==
  /\ Matching(<<"b">>) # {}
  /\ addDevice(<<" ">>, <<"b">>).result.message.kind = "obrigatorios"

\* C8: removeDevice on a lent device fails and leaves devices unchanged, and
\* no call of any handler takes a lent device out of devices
C8_LentStays ==
  \A k \in 1..Len(devices) :
    devices[k].status = "emprestado"
    => /\ LET out == removeDevice(devices[k].id) IN
            ~out.result.success /\ out.devices = devices
       /\ \A n \in NameInputs, b \in BarcodeInputs :
            StillIn(addDevice(n, b).devices, devices[k].id)
       /\ \A id \in IdInputs :
            StillIn(removeDevice(id).devices, devices[k].id)
       /\ \A b \in BarcodeInputs, h \in OwnerInputs :
            StillIn(scanDevice(b, h).devices, devices[k].id)

\* a lent device next to an available one, and the removal of the lent one
\* is refused
C8_Witness ==
  \E j, k \in 1..Len(devices) :
    /\ devices[j].status = "disponivel"
    /\ devices[k].status = "emprestado"
    /\ removeDevice(devices[k].id).result.message.kind = "emprestado"

\* C9: removeDevice on an available device succeeds, removes exactly that
\* device, keeps the others unchanged in their order, and keeps logs as it is
C9_RemoveAvailable ==
  \A k \in 1..Len(devices) :
    devices[k].status = "disponivel"
    => LET out == removeDevice(devices[k].id) IN
       /\ out.result.success
       /\ out.devices = Without(devices, k)
       /\ out.logs = logs

\* a device was removed while another stays, and logs still holds an entry of
\* a device that is no longer registered
C9_Witness ==
  /\ Len(devices) >= 1
  /\ variant = "page"
  /\ \E e \in 1..Len(logs) : \A k \in 1..Len(devices) : devices[k].id # logs[e].deviceId

\* C10: a scan whose normalized barcode matches no device fails with the
\* not-found result, which has no needsOwner flag, and changes neither devices
\* nor logs
C10_ScanNotFound ==
  \A b \in BarcodeInputs, h \in OwnerInputs :
    Matching(b) = {}
    => LET out == scanDevice(b, h) IN
       /\ out.result = Result(FALSE, Msg("nao encontrado", <<trim(toUpperCase(b))>>))
       /\ out.devices = devices
       /\ out.logs = logs
       /\ out.writes = <<>>

\* a store with a device and a log entry, scanned with an unknown barcode
C10_Witness ==
  /\ Len(devices) >= 1
  /\ Len(logs) >= 1
  /\ Matching(<<"b">>) = {}
  /\ ~scanDevice(<<"b">>, <<"m">>).result.success

\* C11: removeDevice with an id that no device in devices has, an id that was
\* unregistered before included, fails with the not-found result and changes
\* neither devices nor logs
C11_RemoveNotFound ==
  \A id \in IdInputs :
    ~StillIn(devices, id)
    => LET out == removeDevice(id) IN
       /\ out.result = Result(FALSE, Msg("nao encontrado", <<>>))
       /\ out.devices = devices
       /\ out.logs = logs
       /\ out.writes = <<>>

\* a device that was lent, returned and unregistered while another one stays:
\* a second removeDevice of its id is refused as not found
C11_Witness ==
  /\ variant = "page"
  /\ Len(devices) >= 1
  /\ \E e \in 1..Len(logs) :
       /\ ~StillIn(devices, logs[e].deviceId)
       /\ logs[e].deviceId \in IdInputs
       /\ removeDevice(logs[e].deviceId).result.message.kind = "nao encontrado"

\* the smaller of two numbers
Min(a, b) == IF a < b THEN a ELSE b

\* C12: logs never holds more than the cap; after N completed scan
\* transitions it holds min(N, cap) entries, and they are the most recently
\* created ones, newest first (ids and timestamps are issued in increasing
\* order, and after the one registration every id goes to a log entry)
C12_Retention ==
  /\ Len(logs) <= LogCap(variant)
  /\ Len(logs) = Min(uuid - created, LogCap(variant))
  /\ \A k \in 1..Len(logs) :
       /\ logs[k].id = uuid - k + 1
       /\ logs[k].timestamp = newDate(clock - k)

\* more scan transitions than the cap have completed and logs is full
C12_Witness ==
  /\ uuid - created > LogCap(variant)
  /\ Len(logs) = LogCap(variant)
  /\ logs[Len(logs)].id = uuid - LogCap(variant) + 1

\* how many entries of newLogs have an id that no entry of oldLogs has
Fresh(oldLogs, newLogs) ==
  LET ids == LogIds(oldLogs) IN
  Cardinality({j \in 1..Len(newLogs) : newLogs[j].id \notin ids})

\* every entry of oldLogs that is still in newLogs is unchanged and in its
\* old order, behind the new entries, and the entries that are gone are the
\* last (oldest) ones of oldLogs
KeepsEntries(oldLogs, newLogs) ==
  \/ newLogs = oldLogs
  \/ LET m == Fresh(oldLogs, newLogs)
         n == Len(newLogs) - m
     IN /\ n <= Len(oldLogs)
        /\ SubSeq(newLogs, m + 1, Len(newLogs)) = SubSeq(oldLogs, 1, n)

\* C13: no call of addDevice, removeDevice or scanDevice modifies, reorders
\* or removes an entry of logs, except that the oldest entries drop off the
\* end at the cap
C13_LogsImmutable ==
  /\ \A n \in NameInputs, b \in BarcodeInputs :
       KeepsEntries(logs, addDevice(n, b).logs)
  /\ \A id \in IdInputs :
       KeepsEntries(logs, removeDevice(id).logs)
  /\ \A b \in BarcodeInputs, h \in OwnerInputs :
       KeepsEntries(logs, scanDevice(b, h).logs)

\* logs is full and a scan pushes its oldest entry out, keeping every other
\* entry one place further down
C13_Witness ==
  /\ Len(logs) = LogCap(variant)
  /\ \E b \in BarcodeInputs :
       LET out == scanDevice(b, RetentionHolder) IN
       /\ out.result.success
       /\ Len(out.logs) = LogCap(variant)
       /\ out.logs[Len(out.logs)] = logs[Len(logs) - 1]
       /\ out.logs[2] = logs[1]

\* C14: addDevice with a name that is non-empty after trim and a normalized
\* barcode that is non-empty and not registered succeeds and appends exactly
\* one device at the end of devices, with the trimmed name, the normalized
\* barcode, status available and a null currentOwner; the devices that were
\* there are unchanged
C14_RegisterSuccess ==
  \A n \in NameInputs, b \in BarcodeInputs :
    (trim(n) # <<>> /\ trim(toUpperCase(b)) # <<>> /\ Matching(b) = {})
    => LET out == addDevice(n, b)
           last == out.devices[Len(out.devices)]
       IN /\ out.result.success
          /\ Len(out.devices) = Len(devices) + 1
          /\ SubSeq(out.devices, 1, Len(devices)) = devices
          /\ last.name = trim(n)
          /\ last.barcode = trim(toUpperCase(b))
          /\ last.status = "disponivel"
          /\ last.currentOwner = Null
          /\ ~StillIn(devices, last.id)
          /\ out.logs = logs

\* a lent device is registered and a register of " n" with the free barcode
\* "b" puts a second device behind it
C14_Witness ==
  /\ Len(devices) = 1
  /\ devices[1].status = "emprestado"
  /\ LET out == addDevice(<<" ", "n">>, <<"b">>) IN
       /\ out.result.success
       /\ out.devices[2].name = <<"n">>
       /\ out.devices[2].barcode = <<"B">>

\* what localStorage holds under key is the snapshot of data, an absent entry
\* counting as the empty collection
Persisted(store, key, data) ==
  IF store[key].present
  THEN store[key] = Text("array", stringify(key, data))
  ELSE data = <<>>

KeptDespiteThrow(out) ==
  /\ out.writes # <<>>
  /\ out.result.success
  /\ out.devices # devices
  /\ devices' = out.devices
  /\ logs' = out.logs
  /\ Len(out.writes) = 2
     => /\ Len(logs') >= 1
        /\ logs'[1].id \notin LogIds(logs)
        /\ failedWrites' = failedWrites + 1
           => /\ ~Persisted(localStorage', STORAGE_KEY, out.devices)
                 => localStorage'[LOGS_KEY] = Text("array", stringify(LOGS_KEY, out.logs))
              /\ ~Persisted(localStorage', LOGS_KEY, out.logs)
                 => localStorage'[STORAGE_KEY] = Text("array", stringify(STORAGE_KEY, out.devices))

\* C16: a step in which a setItem throws is still a successful call of
\* addDevice, removeDevice or scanDevice: what the call set in memory is kept
\* and the steps after the failed write (the log entry, the logs write) ran
C16_WriteFailureSwallowed ==
  [][failedWrites' > failedWrites
     => \/ \E n \in NameInputs, b \in BarcodeInputs : KeptDespiteThrow(addDevice(n, b))
        \/ \E id \in IdInputs : KeptDespiteThrow(removeDevice(id))
        \/ \E b \in BarcodeInputs, h \in OwnerInputs : KeptDespiteThrow(scanDevice(b, h))]_vars

\* the devices write of a check-out threw: the device is lent in memory and
\* available in the persisted snapshot, and the check-out entry is persisted
C16_Witness ==
  /\ failedWrites = 1
  /\ Len(logs) = 1
  /\ Persisted(localStorage, LOGS_KEY, logs)
  /\ localStorage[LOGS_KEY].present
  /\ \E k \in 1..Len(devices) :
       /\ devices[k].status = "emprestado"
       /\ Len(localStorage[STORAGE_KEY].value) = Len(devices)
       /\ localStorage[STORAGE_KEY].value[k].status = "disponivel"

\* C17: when the persisted entry of a collection is behind the collection in
\* memory, a step that sets that collection anew and in which no setItem
\* throws leaves the persisted entry equal to the snapshot of the collection
\* as it is after the step
C17_NextWriteHeals ==
  [][failedWrites' = failedWrites
     => /\ (~Persisted(localStorage, STORAGE_KEY, devices) /\ devices' # devices)
           => localStorage'[STORAGE_KEY] = Text("array", stringify(STORAGE_KEY, devices'))
        /\ (~Persisted(localStorage, LOGS_KEY, logs) /\ logs' # logs)
           => localStorage'[LOGS_KEY] = Text("array", stringify(LOGS_KEY, logs'))]_vars

\* one setItem has thrown, and writes after it have brought both persisted
\* entries back to the collections in memory
C17_Witness ==
  /\ failedWrites = 1
  /\ Len(devices) >= 1
  /\ Len(logs) >= 1
  /\ localStorage[STORAGE_KEY] = Text("array", stringify(STORAGE_KEY, devices))
  /\ localStorage[LOGS_KEY] = Text("array", stringify(LOGS_KEY, logs))

\* C18: as long as no setItem has thrown, mounting the hook again over the
\* persisted entries gives devices and logs equal to the ones in memory,
\* element by element and field by field (null currentOwner and Date fields
\* included), so a reload leaves the state, and with it every invariant, as
\* it was
C18_RoundTrip ==
  failedWrites = 0
  => /\ useDevices(localStorage).devices = devices
     /\ useDevices(localStorage).logs = logs

\* two devices written by this session, one lent and one with a null
\* currentOwner, and a log entry, all persisted
C18_Witness ==
  /\ failedWrites = 0
  /\ Len(devices) = 2
  /\ \E j, k \in 1..Len(devices) :
       /\ devices[j].currentOwner = Null
       /\ devices[k].status = "emprestado"
       /\ devices[j].createdAt = newDate(2)
  /\ Len(logs) >= 1
  /\ localStorage[STORAGE_KEY].json = "array"
  /\ Len(localStorage[STORAGE_KEY].value) = 2
  /\ localStorage[LOGS_KEY].json = "array"

\* an entry that is absent or that cannot be parsed into an array
Unusable(entry) == ~entry.present \/ entry.json \in {"empty", "malformed", "notArray"}

\* C19: mounting the hook loads each collection from its own key: an absent
\* or unparsable entry gives the empty collection, and whatever the other
\* key holds makes no difference to what a key's collection starts as
C19_IndependentLoad ==
  /\ Unusable(localStorage[STORAGE_KEY]) => useDevices(localStorage).devices = <<>>
  /\ Unusable(localStorage[LOGS_KEY]) => useDevices(localStorage).logs = <<>>
  /\ \A r \in StoredInputs(variant, STORAGE_KEY) :
       LET out == useDevices([localStorage EXCEPT ![STORAGE_KEY] = r]) IN
       /\ out.logs = useDevices(localStorage).logs
       /\ Unusable(r) => out.devices = <<>>
       /\ ~Unusable(r) => out.devices = PreviousData(variant, STORAGE_KEY)
  /\ \A r \in StoredInputs(variant, LOGS_KEY) :
       LET out == useDevices([localStorage EXCEPT ![LOGS_KEY] = r]) IN
       /\ out.devices = useDevices(localStorage).devices
       /\ Unusable(r) => out.logs = <<>>
       /\ ~Unusable(r) => out.logs = PreviousData(variant, LOGS_KEY)

\* the hook was mounted over a devices entry that does not parse and a good
\* logs entry: devices started empty and logs holds the stored entry
C19_Witness ==
  /\ localStorage[STORAGE_KEY].json = "malformed"
  /\ localStorage[LOGS_KEY].json = "array"
  /\ devices = <<>>
  /\ logs = PreviousData(variant, LOGS_KEY)

\* the barcodes of the devices of a persisted devices entry
StoredBarcodes(entry) == {entry.value[k].barcode : k \in 1..Len(entry.value)}

\* C20: no handler reads localStorage: whether a scan finds a device, a
\* register is refused as a duplicate, an unregister finds its id, and what
\* getStats counts, all follow devices in memory, also when the persisted
\* devices entry says otherwise
C20_MemoryOnly ==
  /\ \A b \in BarcodeInputs, h \in OwnerInputs :
       (scanDevice(b, h).result.message.kind = "nao encontrado") <=> (Matching(b) = {})
  /\ \A n \in NameInputs, b \in BarcodeInputs :
       LET out == addDevice(n, b) IN
       /\ out.result.success
          <=> (trim(n) # <<>> /\ trim(toUpperCase(b)) # <<>> /\ Matching(b) = {})
       /\ (out.result.message.kind = "ja existe")
          <=> (trim(n) # <<>> /\ Matching(b) # {})
  /\ \A id \in IdInputs :
       (removeDevice(id).result.message.kind = "nao encontrado") <=> ~StillIn(devices, id)
  /\ getStats.total = Len(devices)
  /\ getStats.emprestados + getStats.disponiveis = Len(devices)
  /\ \A k \in 1..Len(devices) :
       devices[k].status = "emprestado" => getStats.emprestados >= 1

\* the write of a register threw: the device is in memory and not in the
\* persisted entry, a scan finds it, a second register of its barcode is
\* refused as a duplicate, and getStats counts it
C20_Witness ==
  /\ failedWrites = 1
  /\ \E b \in BarcodeInputs :
       /\ Matching(b) # {}
       /\ trim(toUpperCase(b)) \notin StoredBarcodes(localStorage[STORAGE_KEY])
       /\ scanDevice(b, <<"m">>).result.success
       /\ addDevice(<<" ", "n">>, b).result.message.kind = "ja existe"
  /\ getStats.total > Len(localStorage[STORAGE_KEY].value)

\* how many devices have this status
CountStatus(status) == Cardinality({k \in 1..Len(devices) : devices[k].status = status})

\* C21: getStats gives the number of devices as total, the number of lent
\* devices as emprestados and total - emprestados as disponiveis, which is the
\* number of available devices; the call sets neither devices nor logs and
\* saves nothing
C21_Stats ==
  /\ getStats.total = Len(devices)
  /\ getStats.emprestados = CountStatus("emprestado")
  /\ getStats.disponiveis = getStats.total - getStats.emprestados
  /\ getStats.disponiveis = CountStatus("disponivel")
  /\ getStats.emprestados + getStats.disponiveis = getStats.total
  /\ LET out == Return(getStats) IN
       out.devices = devices /\ out.logs = logs /\ out.writes = <<>>

\* one device lent and one available: getStats counts 2, 1 and 1
C21_Witness ==
  /\ getStats = [total |-> 2, emprestados |-> 1, disponiveis |-> 1]
  /\ devices[1].status # devices[2].status

\* the message templates of the three handlers
MessageKinds ==
  {"obrigatorios", "ja existe", "cadastrado", "nao encontrado", "emprestado",
   "removido", "SAIDA", "DEVOLVIDO", "empty"}

\* a result descriptor: a success flag and a message
Descriptor(result) ==
  /\ {"success", "message"} \subseteq DOMAIN result
  /\ result.success \in BOOLEAN
  /\ result.message.kind \in MessageKinds

\* C22: in every reachable state every call of addDevice, removeDevice and
\* scanDevice, for every input (blank strings, an absent owner, unknown ids
\* and barcodes included), returns a descriptor with a success flag and a
\* message
C22_AlwaysDescriptor ==
  /\ \A n \in NameInputs, b \in BarcodeInputs : Descriptor(addDevice(n, b).result)
  /\ \A id \in IdInputs : Descriptor(removeDevice(id).result)
  /\ \A b \in BarcodeInputs, h \in OwnerInputs : Descriptor(scanDevice(b, h).result)

\* a state in which each kind of failure is returned: blank inputs, a
\* duplicate, an unknown id, a lent device, an unknown barcode, a missing owner
C22_Witness ==
  /\ addDevice(<<" ">>, <<" ">>).result = Result(FALSE, Msg("obrigatorios", <<>>))
  /\ \E b \in BarcodeInputs : addDevice(<<" ", "n">>, b).result.message.kind = "ja existe"
  /\ \E id \in IdInputs : removeDevice(id).result.message.kind = "nao encontrado"
  /\ \E id \in IdInputs : removeDevice(id).result.message.kind = "emprestado"
  /\ \E b \in BarcodeInputs : scanDevice(b, Undefined).result.message.kind = "nao encontrado"
  /\ \E b \in BarcodeInputs : scanDevice(b, Undefined).result.message.kind = "empty"

\* C23 as stated: the entry that a successful scan creates has a deviceId, a
\* deviceName and a deviceBarcode, equal to the id, name and barcode of the
\* scanned device
C23_Snapshot ==
  \A b \in BarcodeInputs, h \in OwnerInputs :
    \A k \in Matching(b) :
      LET out == scanDevice(b, h) IN
      out.result.success
      => LET entry == out.logs[1] IN
         /\ {"deviceId", "deviceName", "deviceBarcode"} \subseteq DOMAIN entry
         /\ entry.deviceId = devices[k].id
         /\ entry.deviceName = devices[k].name
         /\ entry.deviceBarcode = devices[k].barcode

\* C25: a device is stored with the upper-cased, trimmed form of the barcode
\* it was registered with, and a scan finds it for every input that has the
\* same upper-cased, trimmed form, whatever its case and surrounding blanks
C25_CaseAndSpaceInsensitive ==
  /\ \A k \in 1..Len(devices) :
       /\ devices[k].barcode = trim(toUpperCase(devices[k].barcode))
       /\ \A b \in BarcodeInputs, h \in OwnerInputs :
            trim(toUpperCase(b)) = devices[k].barcode
            => LET out == scanDevice(b, h) IN
               /\ out.result.message.kind # "nao encontrado"
               /\ out.result.success => out.devices[k] # devices[k]
               /\ "needsOwner" \in DOMAIN out.result => out.result.device = devices[k]
  /\ \A n \in NameInputs, b \in BarcodeInputs :
       LET out == addDevice(n, b) IN
       out.result.success
       => out.devices[Len(out.devices)].barcode = trim(toUpperCase(b))

\* a device stored as "A" that both " a" and "A" check out, and a register
\* of "b" that stores "B"
C25_Witness ==
  /\ \E k \in 1..Len(devices) :
       /\ devices[k].barcode = <<"A">>
       /\ scanDevice(<<" ", "a">>, <<"m">>).devices[k].status = "emprestado"
       /\ scanDevice(<<"A">>, <<"m">>).devices[k].status = "emprestado"
  /\ addDevice(<<" ", "n">>, <<"b">>).result.success

\* C26 as stated: every copy of scanDevice cuts logs to the same length, so
\* from the same logs the copies get logs of the same length
C26_OneCap ==
  \A b \in BarcodeInputs :
    LET out == scanDevice(b, RetentionHolder) IN
    out.result.success
    => \A v \in {"hook", "page"} :
         Len(updatedLogs(v, out.logs[1], logs)) = Len(out.logs)

\* the fields of a device that are set once, at registration
Identity(d) == <<d.id, d.name, d.barcode, d.createdAt>>

\* every device of newDevs whose id a device of oldDevs has is that device
\* with its id, name, barcode and createdAt unchanged
KeepsIdentity(oldDevs, newDevs) ==
  \A j \in 1..Len(newDevs), k \in 1..Len(oldDevs) :
    newDevs[j].id = oldDevs[k].id => Identity(newDevs[j]) = Identity(oldDevs[k])

\* C27: the id of a device is issued at its registration and is new (ids are
\* issued in increasing order, so a new id differs from every id issued
\* before, to a device still registered or not); no two devices share an id;
\* and no call changes the id, name, barcode or createdAt of a device
C27_IdentityImmutable ==
  /\ \A j, k \in 1..Len(devices) : j # k => devices[j].id # devices[k].id
  /\ \A k \in 1..Len(devices) : devices[k].id <= uuid
  /\ \A n \in NameInputs, b \in BarcodeInputs :
       LET out == addDevice(n, b) IN
       /\ KeepsIdentity(devices, out.devices)
       /\ out.result.success => out.devices[Len(out.devices)].id > uuid
  /\ \A id \in IdInputs : KeepsIdentity(devices, removeDevice(id).devices)
  /\ \A b \in BarcodeInputs, h \in OwnerInputs :
       KeepsIdentity(devices, scanDevice(b, h).devices)

\* a lent device, registered before another one was registered and removed,
\* that a scan returns with its identity as it was
C27_Witness ==
  /\ created = 2
  /\ Len(devices) = 1
  /\ devices[1].status = "emprestado"
  /\ \E b \in BarcodeInputs :
       LET out == scanDevice(b, Undefined) IN
       /\ out.result.success
       /\ Identity(out.devices[1]) = Identity(devices[1])

\* C28: a successful scan leaves the number and order of devices as they are
\* and changes nothing but the status and currentOwner of the matched device
C28_ScanFrame ==
  \A b \in BarcodeInputs, h \in OwnerInputs :
    LET out == scanDevice(b, h) IN
    out.result.success
    => /\ Len(out.devices) = Len(devices)
       /\ Cardinality(Matching(b)) = 1
       /\ \A j \in 1..Len(devices) :
            IF j \in Matching(b)
            THEN /\ out.devices[j] # devices[j]
                 /\ [out.devices[j] EXCEPT !.status = devices[j].status,
                                           !.currentOwner = devices[j].currentOwner]
                    = devices[j]
            ELSE out.devices[j] = devices[j]

\* two devices of the same name, the second of which a scan lends while the
\* first stays available
C28_Witness ==
  /\ Len(devices) = 2
  /\ devices[1].name = devices[2].name
  /\ devices[1].status = "disponivel"
  /\ devices[2].status = "disponivel"
  /\ \E b \in BarcodeInputs :
       LET out == scanDevice(b, <<"m">>) IN
       /\ out.result.success
       /\ out.devices[1] = devices[1]
       /\ out.devices[2].status = "emprestado"

\* C29: addDevice and removeDevice, and a scanDevice that fails or asks for
\* the owner, leave logs as it is; a successful scanDevice creates exactly
\* one entry; so logs holds one entry for each completed transition (up to
\* the cap), every id that is not a device's having gone to an entry
C29_LogsOnlyByTransitions ==
  /\ \A n \in NameInputs, b \in BarcodeInputs : addDevice(n, b).logs = logs
  /\ \A id \in IdInputs : removeDevice(id).logs = logs
  /\ \A b \in BarcodeInputs, h \in OwnerInputs :
       LET out == scanDevice(b, h) IN
       IF out.result.success
       THEN /\ Fresh(logs, out.logs) = 1
            /\ Len(out.logs) = Min(Len(logs) + 1, LogCap(variant))
            /\ out.uuid = uuid + 1
       ELSE out.logs = logs /\ out.uuid = uuid
  /\ Len(logs) = Min(uuid - created, LogCap(variant))
  /\ clock = uuid

\* two transitions and two registrations have completed, one device has been
\* removed, and logs holds the two entries
C29_Witness ==
  /\ created = 2
  /\ Len(devices) = 1
  /\ uuid - created = 2
  /\ Len(logs) = 2
  /\ logs[1].id # logs[2].id

\* C30: a check-out stores the owner argument without its surrounding
\* blanks, both as the currentOwner of the device and as the owner of the
\* entry it creates
C30_OwnerTrimmed ==
  \A b \in BarcodeInputs, h \in OwnerInputs :
    \A k \in Matching(b) :
      LET out == scanDevice(b, h) IN
      (devices[k].status = "disponivel" /\ out.result.success)
      => /\ out.devices[k].currentOwner = trim(h)
         /\ out.logs[1].owner = trim(h)
         /\ out.logs[1].owner = out.devices[k].currentOwner
         /\ out.result.message.args[2] = trim(h)

\* the owner " k " is stored as "k" in the device and in the entry
C30_Witness ==
  \E k \in 1..Len(devices) :
    /\ devices[k].status = "emprestado"
    /\ devices[k].currentOwner = <<"k">>
    /\ logs[1].action = "SAIDA"
    /\ logs[1].owner = <<"k">>
    /\ logs[1].deviceName = devices[k].name

C31_TwoWritesInOrder ==
  \A b \in BarcodeInputs, h \in OwnerInputs :
    LET out == scanDevice(b, h) IN
    out.result.success
    => /\ Len(out.writes) = 2
       /\ out.writes[1] = Write(STORAGE_KEY, out.devices)
       /\ out.writes[2] = Write(LOGS_KEY, out.logs)
       /\ Len(out.writes[2].data) <= LogCap(variant)
       /\ out.writes[2].data = slice(<<out.logs[1]>> \o logs, LogCap(variant))
       /\ out.writes[2].data[1].id = uuid + 1

\* a scan past the cap has saved both collections: the stored log is full and
\* begins with the entry of that scan
C31_Witness ==
  /\ uuid - created = LogCap(variant) + 1
  /\ Len(logs) = LogCap(variant)
  /\ localStorage[STORAGE_KEY] = Text("array", stringify(STORAGE_KEY, devices))
  /\ localStorage[LOGS_KEY] = Text("array", stringify(LOGS_KEY, logs))
  /\ logs[1].id = uuid

\* C32: a refused register, a refused unregister, a scan of an unknown
\* barcode, a scan that asks for the owner and getStats make no saveToStorage
\* call; register and unregister never save the logs; and no step changes
\* the stored entry of a collection it leaves as it was
C32_NoWriteWithoutChange ==
  /\ [](/\ \A n \in NameInputs, b \in BarcodeInputs :
            LET out == addDevice(n, b) IN
            /\ ~out.result.success => out.writes = <<>>
            /\ \A k \in 1..Len(out.writes) : out.writes[k].key = STORAGE_KEY
        /\ \A id \in IdInputs :
            LET out == removeDevice(id) IN
            /\ ~out.result.success => out.writes = <<>>
            /\ \A k \in 1..Len(out.writes) : out.writes[k].key = STORAGE_KEY
        /\ \A b \in BarcodeInputs, h \in OwnerInputs :
            LET out == scanDevice(b, h) IN
            ~out.result.success => out.writes = <<>>
        /\ Return(getStats).writes = <<>>)
  /\ [][/\ devices' = devices => localStorage'[STORAGE_KEY] = localStorage[STORAGE_KEY]
        /\ logs' = logs => localStorage'[LOGS_KEY] = localStorage[LOGS_KEY]]_vars

\* the session found an unusable logs entry and has registered a second
\* device: the entry is still there, and with one device lent and one
\* available every refused call can be made
C32_Witness ==
  /\ localStorage[LOGS_KEY] = Text("malformed", <<>>)
  /\ created = 2
  /\ Len(devices) = 2
  /\ \E j, k \in 1..Len(devices) :
       devices[j].status = "emprestado" /\ devices[k].status = "disponivel"
  /\ scanDevice(<<"b">>, <<>>).result.needsOwner
  /\ ~removeDevice(1).result.success
  /\ ~addDevice(<<" ", "n">>, <<"A">>).result.success
  /\ ~scanDevice(<<" ">>, <<"m">>).result.success

\* C33: a scan of a lent device does the same whatever owner name comes with
\* it: the outcome is that of the scan without an owner name, the device is
\* given back, and the entry names the owner the device had, not the
\* argument
C33_ReturnIgnoresOwner ==
  \A b \in BarcodeInputs :
    \A k \in Matching(b) :
      devices[k].status = "emprestado"
      => \A h \in OwnerInputs :
           LET out == scanDevice(b, h) IN
           /\ out = scanDevice(b, Undefined)
           /\ out.result.success
           /\ out.devices = [j \in 1..Len(devices) |->
                               IF j = k
                               THEN [devices[k] EXCEPT !.status = "disponivel",
                                                       !.currentOwner = Null]
                               ELSE devices[j]]
           /\ out.logs[1].action = "DEVOLUCAO"
           /\ out.logs[1].owner = devices[k].currentOwner
           /\ out.result.message = Msg("DEVOLVIDO", <<devices[k].name, devices[k].currentOwner>>)

\* the device lent to "m" is scanned together with another owner name, next
\* to a device that is available
C33_Witness ==
  /\ Len(devices) = 2
  /\ devices[1].status = "emprestado"
  /\ devices[1].currentOwner = <<"m">>
  /\ devices[2].status = "disponivel"
  /\ scanDevice(devices[1].barcode, <<" ", "k", " ">>).logs[1].owner = <<"m">>

\* the owner names a check-out can store: the trimmed non-blank arguments
OwnerNames == {trim(h) : h \in {x \in OwnerInputs : ~Blank(x)}}

\* C34: from an empty store the placeholder owner is never used: the owner
\* of every return entry is the trimmed non-empty name given to the check-out
\* before it (the nearest older entry of the same device, where entries
\* carry the device id), and the next return of a lent device will log its
\* currentOwner
C34_NoPlaceholder ==
  /\ \A k \in 1..Len(logs) :
       logs[k].action = "DEVOLUCAO"
       => /\ logs[k].owner # <<"Desconhecido">>
          /\ logs[k].owner \in OwnerNames
          /\ logs[k].owner # <<>> /\ trim(logs[k].owner) = logs[k].owner
          /\ \E j \in (k + 1)..Len(logs) :
               /\ logs[j].action = "SAIDA"
               /\ logs[j].deviceName = logs[k].deviceName
               /\ logs[j].owner = logs[k].owner
               /\ variant = "page"
                  => /\ logs[j].deviceId = logs[k].deviceId
                     /\ \A i \in (k + 1)..(j - 1) : logs[i].deviceId # logs[k].deviceId
  /\ \A k \in 1..Len(devices) :
       devices[k].status = "emprestado"
       => /\ previousOwner(devices[k]) = devices[k].currentOwner
          /\ devices[k].currentOwner \in OwnerNames

\* a device lent to " k " has been returned
C34_Witness ==
  /\ Len(logs) = 2
  /\ logs[1].action = "DEVOLUCAO"
  /\ logs[1].owner = <<"k">>
  /\ logs[2].action = "SAIDA"
  /\ \A k \in 1..Len(devices) : devices[k].status = "disponivel"

\* the retained entries of the device with this id, newest first
EntriesOf(id) ==
  LET OfDevice(e) == e.deviceId = id IN SelectSeq(logs, OfDevice)

\* C35: where entries carry the device id, the retained entries of one
\* device alternate between check-out and return, and the newest retained
\* entry of a registered device agrees with it: a check-out to its
\* currentOwner when it is lent, a return when it is available
C35_Alternation ==
  variant = "page"
  => /\ \A id \in {logs[k].deviceId : k \in 1..Len(logs)} :
          LET es == EntriesOf(id) IN
          \A k \in 1..(Len(es) - 1) :
            /\ es[k].action \in {"SAIDA", "DEVOLUCAO"}
            /\ es[k + 1].action \in {"SAIDA", "DEVOLUCAO"}
            /\ es[k].action # es[k + 1].action
     /\ \A k \in 1..Len(devices) :
          LET es == EntriesOf(devices[k].id) IN
          es # <<>>
          => IF devices[k].status = "emprestado"
             THEN es[1].action = "SAIDA" /\ es[1].owner = devices[k].currentOwner
             ELSE es[1].action = "DEVOLUCAO"

\* the log is full and has dropped entries; the device is lent
C35_Witness ==
  /\ variant = "page"
  /\ uuid - created > LogCap(variant)
  /\ Len(logs) = LogCap(variant)
  /\ Len(EntriesOf(devices[1].id)) = LogCap(variant)
  /\ devices[1].status = "emprestado"
  /\ logs[1].action = "SAIDA"
  /\ logs[2].action = "DEVOLUCAO"

\* C36: the step that unregisters a device leaves the log as it is and
\* leaves no device with the removed device's barcode; and in every state a
\* register with a non-blank name and any spelling of a barcode that no
\* device has (that of a removed device among them) succeeds: it adds one
\* device with that barcode and an id used by no device or entry before,
\* available and with no owner, and keeps the log
C36_BarcodeFreed ==
  /\ [](\A n \in NameInputs, b \in BarcodeInputs :
          (/\ trim(n) # <<>>
           /\ trim(toUpperCase(b)) # <<>>
           /\ \A j \in 1..Len(devices) : devices[j].barcode # trim(toUpperCase(b)))
          => LET out == addDevice(n, b)
                 new == out.devices[Len(out.devices)]
             IN /\ out.result.success
                /\ out.devices = devices \o <<new>>
                /\ new.barcode = trim(toUpperCase(b))
                /\ new.id > uuid
                /\ \A j \in 1..Len(devices) : new.id # devices[j].id
                /\ new.id \notin LogIds(logs)
                /\ new.status = "disponivel"
                /\ new.currentOwner = Null
                /\ out.logs = logs)
  /\ [][(uuid' = uuid /\ Len(devices') = Len(devices) - 1)
        => \A k \in {j \in 1..Len(devices) : ~StillIn(devices', devices[j].id)} :
             /\ devices' = Without(devices, k)
             /\ logs' = logs
             /\ \A j \in 1..Len(devices') : devices'[j].barcode # devices[k].barcode]_vars

\* a device was lent, returned and removed, and its barcode registered
\* again: the new device has the newest id and the two entries of the old
\* one are still in the log
C36_Witness ==
  /\ created = 2
  /\ uuid = 4
  /\ Len(devices) = 1
  /\ devices[1].id = 4
  /\ devices[1].barcode = <<"A">>
  /\ devices[1].status = "disponivel"
  /\ devices[1].currentOwner = Null
  /\ LogIds(logs) = {2, 3}
  /\ variant = "page"
     => \A k \in 1..Len(logs) : logs[k].deviceId = 1 /\ logs[k].deviceBarcode = <<"A">>

\* C37: while the owner prompt shows a device, a confirmation with a
\* non-blank owner lends the device of the prompt, the one with that id, if
\* it is still registered, and otherwise changes no device and no entry and
\* reports an error
C37_ConfirmLendsShown ==
  pendingDevice # NoDevice
  => LET d == pendingDevice[1] IN
     \A typed \in TypedOwners :
       ~Blank(typed)
       => LET out == handleCheckout(typed) IN
          IF StillIn(devices, d.id)
          THEN /\ out.devices =
                    [k \in 1..Len(devices) |->
                       IF devices[k].id = d.id
                       THEN [devices[k] EXCEPT !.status = "emprestado",
                                               !.currentOwner = trim(typed)]
                       ELSE devices[k]]
               /\ out.notification.type = "success"
          ELSE /\ out.devices = devices
               /\ out.logs = logs
               /\ out.notification.type = "error"

====
